---------------------------- MODULE Spec2Model ----------------------------
(***************************************************************************)
(* Model of the task store of taskglitch (the useTasks hook and the CSV    *)
(* helpers that share its source file).                                    *)
(*                                                                         *)
(* Representation of JavaScript values:                                    *)
(*   - a string is a sequence of one-character strings, so that trim(),    *)
(*     template concatenation and parsing are computed, not assumed;       *)
(*   - a number is an integer count of quarters (4 = 1.0, 1 = 0.25), so    *)
(*     that fractional input and Math.round are computed;                  *)
(*   - a loosely typed value is a record [k, s, n]: k is the kind          *)
(*     ("undefined", "null", "string", "number", "NaN", "Infinity"),       *)
(*     s the characters of a string, n the quarters of a number (or the    *)
(*     sign of an infinity);                                               *)
(*   - an instant is a whole number of days (24 * 3600 * 1000 ms), and     *)
(*     the ISO form of the instant d is the string "T" followed by the     *)
(*     decimal digits of d.                                                *)
(***************************************************************************)
EXTENDS Integers, Sequences, FiniteSets, TLC

VARIABLES
    tasks,               \* useState<Task[]>: the live collection
    lastDeleted,         \* useState<Task | null>: the undo slot
    undoCaptured,        \* the lastDeleted value captured by the current undoDelete closure
    cryptoUUID,          \* whether crypto.randomUUID exists in this runtime
    lastOp,              \* history: the last call made on the store, and whether the
                         \* undo slot held a task when it was made
    hasLoadedTasksOnce,  \* module-level guard
    fetchState,          \* the single fetch of /tasks.json
    fetchCount,          \* how many times fetch('/tasks.json') was called
    normalizeCount,      \* how many times the load ran normalizeTasks
    effects,             \* the invocations of the load effect
    hookTasks,           \* per hook instance: tasks during the initial load
    hookLoading,         \* per hook instance: loading
    hookError,           \* per hook instance: error
    hookFetchedRef,      \* per hook instance: fetchedRef.current
    normIn,              \* the batch handed to normalizeTasks on its own
    normOut,             \* what normalizeTasks returned for it
    normDone,            \* whether normalizeTasks has returned
    pendingUpdates,      \* whether the component has state updates queued since its last render
    deferredSlot,        \* the setLastDeleted of a deleteTask updater run at the next render
    restored,            \* history: the tasks undoDelete appended since they were last deleted
    csvText              \* what toCSV returned for the collection ("" before the export)

storeVars == <<tasks, lastDeleted, undoCaptured, cryptoUUID, lastOp>>
loadVars == <<hasLoadedTasksOnce, fetchState, fetchCount, normalizeCount,
              effects, hookTasks, hookLoading, hookError, hookFetchedRef>>
normVars == <<normIn, normOut, normDone>>
renderVars == <<pendingUpdates, deferredSlot, restored>>
vars == <<tasks, lastDeleted, undoCaptured, cryptoUUID, lastOp, hasLoadedTasksOnce,
          fetchState, fetchCount, normalizeCount, effects, hookTasks,
          hookLoading, hookError, hookFetchedRef, normIn, normOut, normDone,
          pendingUpdates, deferredSlot, restored, csvText>>

-----------------------------------------------------------------------------
(* Bounds of the model *)

\* the collection is not grown beyond this many tasks
MaxTasks == 2
\* the longest batch handed to normalizeTasks
MaxBatch == 3
\* the hook instances mounted in one process
MaxHooks == 2
\* the invocations of the load effect in one process
MaxEffects == 3

-----------------------------------------------------------------------------
(* JavaScript values *)

Undefined == [k |-> "undefined", s |-> <<>>, n |-> 0]
Null == [k |-> "null", s |-> <<>>, n |-> 0]
NaN == [k |-> "NaN", s |-> <<>>, n |-> 0]
Infinity == [k |-> "Infinity", s |-> <<>>, n |-> 1]
Str(s) == [k |-> "string", s |-> s, n |-> 0]
\* the number q / 4
Num(q) == [k |-> "number", s |-> <<>>, n |-> q]

IsString(v) == v.k = "string"

DigitChars == <<"0", "1", "2", "3", "4", "5", "6", "7", "8", "9">>

IsDigit(c) == \E i \in 1..10 : DigitChars[i] = c

DigitValue(c) == (CHOOSE i \in 1..10 : DigitChars[i] = c) - 1

RECURSIVE NatDigits(_)
\* String(n) for a natural number n
NatDigits(n) ==
    IF n < 10 THEN <<DigitChars[n + 1]>>
    ELSE NatDigits(n \div 10) \o <<DigitChars[(n % 10) + 1]>>

\* String(n) for an integer n
IntDigits(n) == IF n < 0 THEN <<"-">> \o NatDigits(0 - n) ELSE NatDigits(n)

RECURSIVE ParseNat(_, _)
\* the value of the digit string s, acc being the value of the digits read
ParseNat(s, acc) ==
    IF s = <<>> THEN acc ELSE ParseNat(Tail(s), 10 * acc + DigitValue(Head(s)))

AllDigits(s) == s # <<>> /\ \A i \in 1..Len(s) : IsDigit(s[i])

RECURSIVE TrimStart(_)
TrimStart(s) == IF s # <<>> /\ Head(s) = " " THEN TrimStart(Tail(s)) ELSE s

RECURSIVE TrimEnd(_)
TrimEnd(s) ==
    IF s # <<>> /\ s[Len(s)] = " " THEN TrimEnd(SubSeq(s, 1, Len(s) - 1)) ELSE s

\* String.prototype.trim
Trim(s) == TrimEnd(TrimStart(s))

\* Number(v) of a string: blank is 0, an optionally signed digit string is
\* its value, anything else is NaN
StringToNumber(s) ==
    LET t == Trim(s) IN
    IF t = <<>> THEN Num(0)
    ELSE IF AllDigits(t) THEN Num(4 * ParseNat(t, 0))
    ELSE IF Head(t) = "-" /\ AllDigits(Tail(t)) THEN Num(0 - 4 * ParseNat(Tail(t), 0))
    ELSE NaN

\* Number(v)
ToNumber(v) ==
    CASE v.k = "undefined" -> NaN
      [] v.k = "null" -> Num(0)
      [] v.k = "string" -> StringToNumber(v.s)
      [] OTHER -> v

\* Number.isFinite(x) for x a result of Number(...)
IsFinite(x) == x.k = "number"

\* x > 0 for x a result of Number(...)
GreaterThanZero(x) == (x.k = "number" /\ x.n > 0) \/ (x.k = "Infinity" /\ x.n > 0)

\* v <= 0 for a loosely typed v (abstract relational comparison)
LessOrEqualZero(v) ==
    LET x == ToNumber(v) IN
    (x.k = "number" /\ x.n <= 0) \/ (x.k = "Infinity" /\ x.n < 0)

\* Math.round of q quarters, in quarters: floor(x + 0.5)
MathRound(q) == 4 * ((q + 2) \div 4)

\* Math.max(1, y), in quarters
MathMax1(q) == IF q > 4 THEN q ELSE 4

\* truthiness of a loosely typed value
Truthy(v) ==
    CASE v.k = "undefined" -> FALSE
      [] v.k = "null" -> FALSE
      [] v.k = "NaN" -> FALSE
      [] v.k = "string" -> v.s # <<>>
      [] v.k = "number" -> v.n # 0
      [] OTHER -> TRUE

\* Date.prototype.toISOString of the instant d
ToISOString(d) == <<"T">> \o IntDigits(d)

\* new Date(v).getTime(): NaN for an invalid date
DateTime(v) ==
    CASE v.k = "string" ->
            IF v.s # <<>> /\ Head(v.s) = "T" /\ AllDigits(Tail(v.s))
            THEN Num(4 * ParseNat(Tail(v.s), 0)) ELSE NaN
      [] v.k = "number" -> Num(4 * (v.n \div 4))
      [] v.k = "null" -> Num(0)
      [] OTHER -> NaN

-----------------------------------------------------------------------------
(* String literals of the source *)

UntitledTask == <<"U", "n", "t", "i", "t", "l", "e", "d", " ", "T", "a", "s", "k">>
High == <<"H", "i", "g", "h">>
Medium == <<"M", "e", "d", "i", "u", "m">>
Low == <<"L", "o", "w">>
Todo == <<"T", "o", "d", "o">>
InProgress == <<"I", "n", " ", "P", "r", "o", "g", "r", "e", "s", "s">>
Done == <<"D", "o", "n", "e">>
TaskPrefix == <<"t", "a", "s", "k", "-">>

\* the ids crypto.randomUUID can return
UuidPool == { <<"u">> \o NatDigits(i) : i \in 1..(MaxTasks + MaxBatch + 3) }

UuidIndex(u) == ParseNat(Tail(u), 0)

\* crypto.randomUUID(): an id that no record in sight carries; which one is
\* immaterial, the model takes the first unused of the pool
RandomUUID(used) ==
    CHOOSE u \in UuidPool \ used :
        \A w \in UuidPool \ used : UuidIndex(u) <= UuidIndex(w)


-----------------------------------------------------------------------------
(* Records *)

\* {}: an object with no field
EmptyObject ==
    [id |-> Undefined, title |-> Undefined, revenue |-> Undefined,
     timeTaken |-> Undefined, priority |-> Undefined, status |-> Undefined,
     notes |-> Undefined, createdAt |-> Undefined, completedAt |-> Undefined]

\* x ?? {}
OrEmptyObject(x) == IF x = Null \/ x = Undefined THEN EmptyObject ELSE x

\* lastDeleted = null
NoTask == Null

IsPriority(v) == IsString(v) /\ v.s \in {High, Medium, Low}

IsStatus(v) == IsString(v) /\ v.s \in {Todo, InProgress, Done}

\* typeof v === 'string' && v.trim() ? v.trim() : dflt
TrimmedOr(v, dflt) == IF IsString(v) /\ Trim(v.s) # <<>> THEN Trim(v.s) ELSE dflt

\* Number.isFinite(r) ? r : dflt, for r = Number(v); dflt and the result in quarters
FiniteOr(v, dflt) == LET r == ToNumber(v) IN IF IsFinite(r) THEN r.n ELSE dflt

\* SafeTimeTaken without Math.max(1, ...)
SafeTimeTaken_NoFloor(v, dflt) ==
    LET tt == ToNumber(v) IN
    IF IsFinite(tt) /\ GreaterThanZero(tt) THEN MathRound(tt.n) ELSE dflt

\* Number.isFinite(tt) && tt > 0 ? Math.max(1, Math.round(tt)) : dflt, for tt = Number(v)
SafeTimeTaken(v, dflt) ==
    LET tt == ToNumber(v) IN
    IF IsFinite(tt) /\ GreaterThanZero(tt) THEN MathMax1(MathRound(tt.n)) ELSE dflt

IdSet(ts) == { ts[i].id : i \in 1..Len(ts) }

-----------------------------------------------------------------------------
(* normalizeTasks *)

\* the id normalizeTasks gives the record at index idx
NormalizedId(t, idx, seen, now, hasUUID) ==
    LET supplied == TrimmedOr(t.id, <<>>)
        id == IF supplied # <<>> THEN supplied
              ELSE IF hasUUID THEN RandomUUID(seen)
              ELSE TaskPrefix \o IntDigits(now) \o <<"-">> \o NatDigits(idx)
    IN IF id \in seen THEN id \o <<"-">> \o NatDigits(idx) ELSE id

\* the createdAt normalizeTasks gives the record at index idx
NormalizedCreatedAt(t, idx, now) ==
    LET fallback == now - (idx + 1)
        created == IF Truthy(t.createdAt) THEN DateTime(t.createdAt) ELSE Num(4 * fallback)
    IN IF created.k = "NaN" THEN ToISOString(fallback) ELSE ToISOString(created.n \div 4)

\* the completedAt normalizeTasks gives a record
NormalizedCompletedAt(t, status, createdAt) ==
    LET completedAt == IF IsString(t.completedAt) THEN t.completedAt ELSE Undefined
    IN IF ~Truthy(completedAt) /\ status = Done
       THEN Str(ToISOString((DateTime(Str(createdAt)).n \div 4) + 1))
       ELSE completedAt

\* the body of the loop of normalizeTasks for the record at index idx
NormalizeOne(raw, idx, seen, now, hasUUID) ==
    LET t == OrEmptyObject(raw)
        status == IF IsStatus(t.status) THEN t.status.s ELSE Todo
        createdAt == NormalizedCreatedAt(t, idx, now)
    IN [id |-> NormalizedId(t, idx, seen, now, hasUUID),
        title |-> TrimmedOr(t.title, UntitledTask),
        revenue |-> FiniteOr(t.revenue, 0),
        timeTaken |-> SafeTimeTaken(t.timeTaken, 4),
        priority |-> IF IsPriority(t.priority) THEN t.priority.s ELSE Low,
        status |-> status,
        notes |-> IF IsString(t.notes) THEN t.notes.s ELSE <<>>,
        createdAt |-> createdAt,
        completedAt |-> NormalizedCompletedAt(t, status, createdAt)]

RECURSIVE NormalizeLoop(_, _, _, _, _, _)
NormalizeLoop(arr, idx, seen, out, now, hasUUID) ==
    IF idx >= Len(arr) THEN out
    ELSE LET task == NormalizeOne(arr[idx + 1], idx, seen, now, hasUUID)
         IN NormalizeLoop(arr, idx + 1, seen \cup {task.id}, Append(out, task), now, hasUUID)

\* normalizeTasks(input): input is [isArray, items]
normalizeTasks(input, now, hasUUID) ==
    LET arr == IF input.isArray THEN input.items ELSE <<>>
    IN NormalizeLoop(arr, 0, {}, <<>>, now, hasUUID)

-----------------------------------------------------------------------------
(* The mutators: each is the state the store is in after the call *)

\* the updater addTask hands to setTasks; inSight are the ids a fresh UUID avoids
addTaskUpdater(prev, task, now, hasUUID, inSight) ==
    LET supplied == TrimmedOr(task.id, <<>>)
        id0 == IF supplied # <<>> THEN supplied
               ELSE IF hasUUID THEN RandomUUID(inSight)
               ELSE TaskPrefix \o IntDigits(now)
        id == IF id0 \in IdSet(prev) THEN id0 \o <<"-">> \o NatDigits(Len(prev)) ELSE id0
        status == IF IsStatus(task.status) THEN task.status.s ELSE Todo
        createdAt == ToISOString(now)
    IN Append(prev,
        [id |-> id,
         title |-> TrimmedOr(task.title, UntitledTask),
         revenue |-> FiniteOr(task.revenue, 0),
         timeTaken |-> SafeTimeTaken(task.timeTaken, 4),
         priority |-> IF IsPriority(task.priority) THEN task.priority.s ELSE Low,
         status |-> status,
         notes |-> IF IsString(task.notes) THEN task.notes.s ELSE <<>>,
         createdAt |-> createdAt,
         completedAt |-> IF status = Done THEN Str(createdAt) ELSE Undefined])

\* MergePatch that leaves completedAt alone when the status moves away from Done
MergePatch_NeverClears(t, patch, now) ==
    LET title == IF patch.title # Undefined THEN TrimmedOr(patch.title, UntitledTask) ELSE t.title
        revenue == IF patch.revenue # Undefined THEN FiniteOr(patch.revenue, t.revenue) ELSE t.revenue
        timeTaken == IF patch.timeTaken # Undefined
                     THEN SafeTimeTaken(patch.timeTaken, t.timeTaken) ELSE t.timeTaken
        priority == IF patch.priority # Undefined /\ IsPriority(patch.priority)
                    THEN patch.priority.s ELSE t.priority
        status == IF patch.status # Undefined /\ IsStatus(patch.status)
                  THEN patch.status.s ELSE t.status
        notes == IF patch.notes # Undefined /\ IsString(patch.notes) THEN patch.notes.s ELSE t.notes
        completedAt ==
            IF t.status # Done /\ status = Done /\ ~Truthy(t.completedAt)
            THEN Str(ToISOString(now))
            ELSE t.completedAt
    IN [id |-> t.id, title |-> title, revenue |-> revenue, timeTaken |-> timeTaken,
        priority |-> priority, status |-> status, notes |-> notes,
        createdAt |-> t.createdAt, completedAt |-> completedAt]

\* MergePatch as a raw overwrite { ...t, ...patch } of id and createdAt
MergePatch_Overwrites(t, patch, now) ==
    LET title == IF patch.title # Undefined THEN TrimmedOr(patch.title, UntitledTask) ELSE t.title
        revenue == IF patch.revenue # Undefined THEN FiniteOr(patch.revenue, t.revenue) ELSE t.revenue
        timeTaken == IF patch.timeTaken # Undefined
                     THEN SafeTimeTaken(patch.timeTaken, t.timeTaken) ELSE t.timeTaken
        priority == IF patch.priority # Undefined /\ IsPriority(patch.priority)
                    THEN patch.priority.s ELSE t.priority
        status == IF patch.status # Undefined /\ IsStatus(patch.status)
                  THEN patch.status.s ELSE t.status
        notes == IF patch.notes # Undefined /\ IsString(patch.notes) THEN patch.notes.s ELSE t.notes
        completedAt ==
            IF t.status # Done /\ status = Done /\ ~Truthy(t.completedAt)
            THEN Str(ToISOString(now))
            ELSE IF t.status = Done /\ status # Done THEN Undefined
            ELSE t.completedAt
    IN [id |-> IF IsString(patch.id) THEN patch.id.s ELSE t.id,
        title |-> title, revenue |-> revenue, timeTaken |-> timeTaken,
        priority |-> priority, status |-> status, notes |-> notes,
        createdAt |-> IF IsString(patch.createdAt) THEN patch.createdAt.s ELSE t.createdAt,
        completedAt |-> completedAt]

\* the record updateTask's first map returns for the task t with t.id = id
MergePatch(t, patch, now) ==
    LET title == IF patch.title # Undefined THEN TrimmedOr(patch.title, UntitledTask) ELSE t.title
        revenue == IF patch.revenue # Undefined THEN FiniteOr(patch.revenue, t.revenue) ELSE t.revenue
        timeTaken == IF patch.timeTaken # Undefined
                     THEN SafeTimeTaken(patch.timeTaken, t.timeTaken) ELSE t.timeTaken
        priority == IF patch.priority # Undefined /\ IsPriority(patch.priority)
                    THEN patch.priority.s ELSE t.priority
        status == IF patch.status # Undefined /\ IsStatus(patch.status)
                  THEN patch.status.s ELSE t.status
        notes == IF patch.notes # Undefined /\ IsString(patch.notes) THEN patch.notes.s ELSE t.notes
        completedAt ==
            IF t.status # Done /\ status = Done /\ ~Truthy(t.completedAt)
            THEN Str(ToISOString(now))
            ELSE IF t.status = Done /\ status # Done THEN Undefined
            ELSE t.completedAt
    IN [id |-> t.id, title |-> title, revenue |-> revenue, timeTaken |-> timeTaken,
        priority |-> priority, status |-> status, notes |-> notes,
        createdAt |-> t.createdAt, completedAt |-> completedAt]

\* the second map of updateTask: (patch.timeTaken ?? t.timeTaken) <= 0 ? {...t, timeTaken: 1} : t
RecheckTimeTaken(t, patch) ==
    LET v == IF patch.timeTaken = Undefined \/ patch.timeTaken = Null
             THEN Num(t.timeTaken) ELSE patch.timeTaken
    IN IF LessOrEqualZero(v) THEN [t EXCEPT !.timeTaken = 4] ELSE t

\* the updater updateTask hands to setTasks
updateTaskUpdater(prev, id, patch, now) ==
    [i \in 1..Len(prev) |->
        IF prev[i].id # id THEN prev[i]
        ELSE RecheckTimeTaken(MergePatch(prev[i], patch, now), patch)]

\* prev.find(t => t.id === id) || null
FindTask(prev, id) ==
    IF id \in IdSet(prev)
    THEN prev[CHOOSE i \in 1..Len(prev) :
                  prev[i].id = id /\ \A j \in 1..(i - 1) : prev[j].id # id]
    ELSE NoTask

RECURSIVE FilterOut(_, _)
\* prev.filter(t => t.id !== id)
FilterOut(prev, id) ==
    IF prev = <<>> THEN <<>>
    ELSE IF Head(prev).id = id THEN FilterOut(Tail(prev), id)
    ELSE <<Head(prev)>> \o FilterOut(Tail(prev), id)

\* The store as one value: the two pieces of state and the lastDeleted value
\* the current undoDelete closure has captured.
Store(ts, ld, cap) == [tasks |-> ts, lastDeleted |-> ld, captured |-> cap]

\* the ids a fresh UUID cannot be: those of the records the store holds
IdsInSight(st) ==
    IdSet(st.tasks)
      \cup (IF st.lastDeleted = NoTask THEN {} ELSE {st.lastDeleted.id})
      \cup (IF st.captured = NoTask THEN {} ELSE {st.captured.id})

\* addTask that also empties the undo slot
addTask_ClearsSlot(st, task, now, hasUUID) ==
    [st EXCEPT !.tasks = addTaskUpdater(st.tasks, task, now, hasUUID, IdsInSight(st)),
               !.lastDeleted = NoTask]

addTask(st, task, now, hasUUID) ==
    [st EXCEPT !.tasks = addTaskUpdater(st.tasks, task, now, hasUUID, IdsInSight(st))]

updateTask(st, id, patch, now) ==
    [st EXCEPT !.tasks = updateTaskUpdater(st.tasks, id, patch, now)]

\* deleteTask that keeps a task the slot already holds
deleteTask_KeepsHeld(st, id) ==
    [st EXCEPT !.lastDeleted = IF st.lastDeleted # NoTask THEN st.lastDeleted
                               ELSE FindTask(st.tasks, id),
               !.tasks = FilterOut(st.tasks, id)]

deleteTask(st, id) ==
    [st EXCEPT !.lastDeleted = FindTask(st.tasks, id),
               !.tasks = FilterOut(st.tasks, id)]

\* undoDelete that puts the task back at the front of the collection
undoDelete_Prepends(st) ==
    IF st.captured = NoTask THEN st
    ELSE [st EXCEPT !.tasks = <<st.captured>> \o st.tasks,
                    !.lastDeleted = NoTask]

undoDelete(st) ==
    IF st.captured = NoTask THEN st
    ELSE [st EXCEPT !.tasks = Append(st.tasks, st.captured),
                    !.lastDeleted = NoTask]

\* clearLastDeleted that does nothing
clearLastDeleted_Keeps(st) == st

clearLastDeleted(st) == [st EXCEPT !.lastDeleted = NoTask]

\* the re-render that follows an event: useCallback(..., [lastDeleted]) makes
\* the undoDelete closure anew over the committed lastDeleted
Commit(st) == [st EXCEPT !.captured = st.lastDeleted]

-----------------------------------------------------------------------------
(* Inputs *)

Rec(id, title, revenue, timeTaken, priority, status, notes, createdAt, completedAt) ==
    [id |-> id, title |-> title, revenue |-> revenue, timeTaken |-> timeTaken,
     priority |-> priority, status |-> status, notes |-> notes,
     createdAt |-> createdAt, completedAt |-> completedAt]

U == Undefined

\* what Date.now() returns during the initial load
LoadTimes == {20}

\* what Date.now() returns in the calls made on the store afterwards
Times == {25}

\* records of /tasks.json the store starts from
LoadItems ==
    { Rec(Str(<<"a">>), U, Num(40), Num(10), Str(High), Str(Done), U, U, U),
      Rec(Str(<<" ", "a", " ">>), Str(<<" ", "x", " ">>), Str(<<"7">>), Num(0), U,
          Str(Todo), Str(<<"n">>), Str(<<"T", "5">>), Str(<<"T", "6">>)),
      Rec(U, U, U, Str(<<"a", "b", "c">>), U, Str(InProgress), U, Str(<<"x">>), U) }

RECURSIVE SeqsUpTo(_, _)
\* the sequences over S of length at most n
SeqsUpTo(S, n) ==
    IF n = 0 THEN {<<>>}
    ELSE LET shorter == SeqsUpTo(S, n - 1)
         IN shorter \cup { Append(q, x) : q \in { r \in shorter : Len(r) = n - 1 }, x \in S }

LoadInputs ==
    { [isArray |-> TRUE, items |-> q] : q \in SeqsUpTo(LoadItems, MaxTasks) }
      \cup { [isArray |-> FALSE, items |-> <<>>] }

\* arguments of addTask
AddInputs ==
    { Rec(Str(<<" ", "a">>), Str(<<"y">>), Num(-8), Num(1), Str(Medium), Str(Done),
          Str(<<"m">>), Str(<<"T", "1">>), Str(<<"T", "2">>)),
      Rec(U, Str(<<" ">>), NaN, Str(<<"a", "b", "c">>), Str(<<"x">>), U, Null, U, U) }

\* patches of updateTask
Patches ==
    { Rec(U, U, U, U, U, Str(Done), U, U, U),
      Rec(U, U, U, U, U, Str(Todo), U, U, U),
      Rec(Str(<<"z">>), Str(<<" ">>), Infinity, Str(<<"-", "3">>), Str(<<"x">>),
          Str(<<"d", "o", "n", "e">>), Null, Str(<<"T", "1">>), Str(<<"T", "2">>)) }

\* an id no task carries
UnknownId == <<"z", "z">>

-----------------------------------------------------------------------------
(* The store: every call is an event of its own, committed before the next *)

store == Store(tasks, lastDeleted, undoCaptured)

\* the variables take the value st after the event
Becomes(st, op) ==
    /\ tasks' = Commit(st).tasks
    /\ lastDeleted' = Commit(st).lastDeleted
    /\ undoCaptured' = Commit(st).captured
    /\ lastOp' = [op |-> op, held |-> lastDeleted # NoTask]
    /\ UNCHANGED cryptoUUID
    /\ UNCHANGED loadVars
    /\ UNCHANGED normVars
    /\ UNCHANGED <<renderVars, csvText>>

LoadIdle ==
    /\ hasLoadedTasksOnce = FALSE
    /\ fetchState = "none"
    /\ fetchCount = 0
    /\ normalizeCount = 0
    /\ effects = <<>>
    /\ hookTasks = <<>>
    /\ hookLoading = <<>>
    /\ hookError = <<>>
    /\ hookFetchedRef = <<>>

NormIdle ==
    /\ normIn = [isArray |-> FALSE, items |-> <<>>]
    /\ normOut = <<>>
    /\ normDone = FALSE

\* no update is queued and nothing has been restored
RenderIdle ==
    /\ pendingUpdates = FALSE
    /\ deferredSlot = [set |-> FALSE, value |-> NoTask]
    /\ restored = <<>>

\* toCSV has not been called
CsvIdle == csvText = <<>>

\* the store once the initial load has settled: setTasks(normalizeTasks(data)),
\* or the empty collection of a failed load
Init ==
    /\ cryptoUUID \in BOOLEAN
    /\ \E input \in LoadInputs, now \in LoadTimes :
           tasks = normalizeTasks(input, now, cryptoUUID)
    /\ lastDeleted = NoTask
    /\ undoCaptured = NoTask
    /\ lastOp = [op |-> "load", held |-> FALSE]
    /\ LoadIdle
    /\ NormIdle
    /\ RenderIdle
    /\ CsvIdle

AddTask ==
    /\ Len(tasks) < MaxTasks
    /\ \E task \in AddInputs, now \in Times :
           Becomes(addTask(store, task, now, cryptoUUID), "addTask")

UpdateTask ==
    \E id \in IdSet(tasks) \cup {UnknownId}, patch \in Patches, now \in Times :
        Becomes(updateTask(store, id, patch, now), "updateTask")

DeleteTask ==
    \E id \in IdSet(tasks) \cup {UnknownId} :
        Becomes(deleteTask(store, id), "deleteTask")

UndoDelete ==
    /\ Len(tasks) < MaxTasks \/ undoCaptured = NoTask
    /\ Becomes(undoDelete(store), "undoDelete")

ClearLastDeleted == Becomes(clearLastDeleted(store), "clearLastDeleted")

Next ==
    \/ AddTask
    \/ UpdateTask
    \/ DeleteTask
    \/ UndoDelete
    \/ ClearLastDeleted

Spec == Init /\ [][Next]_vars

-----------------------------------------------------------------------------
(* normalizeTasks on its own: one batch, normalized once *)

\* records of a batch
NormItems ==
    { Rec(Str(<<"a">>), U, Num(40), Num(10), Str(High), Str(Done), U, U, U),
      Rec(Str(<<"a", "-", "2">>), Str(<<"y">>), U, Infinity, U, Str(Todo), U, U, U),
      Rec(Str(<<" ", "a", " ">>), Str(<<" ", "x", " ">>), Str(<<"7">>), Num(0), U,
          Str(Todo), Str(<<"n">>), Str(<<"T", "5">>), Str(<<"T", "6">>)),
      Rec(Str(<<" ">>), U, U, Num(-6), Str(<<"x">>), Str(InProgress), Null, Str(<<"x">>), U),
      Rec(U, U, U, Num(1), U, U, U, U, U),
      Null }

NormInputs ==
    { [isArray |-> TRUE, items |-> q] : q \in SeqsUpTo(NormItems, MaxBatch) }
      \cup { [isArray |-> FALSE, items |-> <<>>] }

StoreIdle ==
    /\ tasks = <<>>
    /\ lastDeleted = NoTask
    /\ undoCaptured = NoTask
    /\ lastOp = [op |-> "load", held |-> FALSE]

InitNormalize ==
    /\ cryptoUUID \in BOOLEAN
    /\ normIn \in NormInputs
    /\ normOut = <<>>
    /\ normDone = FALSE
    /\ StoreIdle
    /\ LoadIdle
    /\ RenderIdle
    /\ CsvIdle

Normalize ==
    /\ ~normDone
    /\ \E now \in LoadTimes : normOut' = normalizeTasks(normIn, now, cryptoUUID)
    /\ normDone' = TRUE
    /\ UNCHANGED <<normIn, storeVars, loadVars, renderVars, csvText>>

NextNormalize == Normalize

SpecNormalize == InitNormalize /\ [][NextNormalize]_vars

-----------------------------------------------------------------------------
(* Properties of the store *)

Elems(q) == { q[i] : i \in 1..Len(q) }

\* the tasks the store holds: the collection and the undo slot
HeldTasks == Elems(tasks) \cup (IF lastDeleted = NoTask THEN {} ELSE {lastDeleted})

\* C1: every task of the collection has completedAt set if and only if its
\* status is Done
C1_CompletedAtIffDone ==
    \A i \in 1..Len(tasks) :
        (tasks[i].completedAt # Undefined) <=> (tasks[i].status = Done)

\* C2: the ids of the tasks of the live collection are pairwise distinct
C2_IdsPairwiseDistinct == Cardinality(IdSet(tasks)) = Len(tasks)

\* C3: normalizeTasks returns one task per input record, with pairwise
\* distinct ids
C3_NormalizeOnePerRecordDistinctIds ==
    normDone =>
        /\ Len(normOut) = (IF normIn.isArray THEN Len(normIn.items) ELSE 0)
        /\ Cardinality(IdSet(normOut)) = Len(normOut)

\* C4: every task of the collection and the task in the undo slot has an
\* integer timeTaken >= 1
C4_TimeTakenIntegerAtLeastOne ==
    \A t \in HeldTasks : t.timeTaken % 4 = 0 /\ t.timeTaken >= 4

\* C4 witness: updateTask has just run while the slot held a task, and the
\* loaded record whose timeTaken was 0 has been through the patch of invalid
\* values (its title is the placeholder)
C4_Witness ==
    /\ lastOp = [op |-> "updateTask", held |-> TRUE]
    /\ \E i \in 1..Len(tasks) :
           /\ tasks[i].revenue = 28
           /\ tasks[i].title = UntitledTask
           /\ tasks[i].timeTaken = 4

\* C5: deleteTask and updateTask with an id that is not in the collection
\* leave the collection and the undo slot as they are
C5_UnknownIdIsNoOp ==
    /\ Commit(deleteTask(store, UnknownId)) = store
    /\ \A patch \in Patches, now \in Times :
           Commit(updateTask(store, UnknownId, patch, now)) = store

\* C6: for every task t of the collection, deleteTask(t.id) then undoDelete()
\* gives a collection that contains t and an empty slot, and a second
\* undoDelete() changes nothing
C6_DeleteThenUndoRestores ==
    \A i \in 1..Len(tasks) :
        LET t == tasks[i]
            s1 == Commit(deleteTask(store, t.id))
            s2 == Commit(undoDelete(s1))
            s3 == Commit(undoDelete(s2))
        IN /\ t \in Elems(s2.tasks)
           /\ s2.lastDeleted = NoTask
           /\ s3 = s2

AsRaw(t) ==
    [id |-> Str(t.id), title |-> Str(t.title), revenue |-> Num(t.revenue),
     timeTaken |-> Num(t.timeTaken), priority |-> Str(t.priority),
     status |-> Str(t.status), notes |-> Str(t.notes),
     createdAt |-> Str(t.createdAt), completedAt |-> t.completedAt]

\* an array of tasks as an input batch
AsInput(ts) == [isArray |-> TRUE, items |-> [i \in 1..Len(ts) |-> AsRaw(ts[i])]]

\* C15: normalizeTasks applied to its own output returns the same tasks in
\* the same order, and every non-blank id of the input is kept (trimmed)
\* unless an earlier record of the batch was assigned that id
C15_NormalizeIdempotent ==
    normDone =>
        /\ \A now \in LoadTimes :
               normalizeTasks(AsInput(normOut), now, cryptoUUID) = normOut
        /\ \A idx \in 1..Len(normOut) :
               LET supplied == TrimmedOr(OrEmptyObject(normIn.items[idx]).id, <<>>)
               IN supplied # <<>> =>
                      \/ normOut[idx].id = supplied
                      \/ supplied \in IdSet(SubSeq(normOut, 1, idx - 1))

-----------------------------------------------------------------------------
(* Properties of updateTask and of the order of the collection *)

\* a patch with the one key status
StatusPatch(status) == Rec(U, U, U, U, U, Str(status), U, U, U)

\* patches with one key, whose value fails the validation of its field
InvalidPatches ==
    { Rec(U, v, U, U, U, U, U, U, U) : v \in {Str(<<" ">>), Str(<<>>), Num(4), Null} }
      \cup { Rec(U, U, v, U, U, U, U, U, U) : v \in {NaN, Infinity, Str(<<"a", "b", "c">>)} }
      \cup { Rec(U, U, U, v, U, U, U, U, U) :
                 v \in {NaN, Infinity, Num(0), Num(-12), Str(<<"-", "3">>), Str(<<"x">>)} }
      \cup { Rec(U, U, U, U, v, U, U, U, U) : v \in {Str(<<"h", "i", "g", "h">>), Num(4), Null} }
      \cup { Rec(U, U, U, U, U, v, U, U, U) : v \in {Str(<<"d", "o", "n", "e">>), Num(4), Null} }
      \cup { Rec(U, U, U, U, U, U, v, U, U) : v \in {Num(4), Null} }

\* C13: updateTask(id, patch) on an existing task, with a patch whose one
\* value fails validation, keeps the task as it was: the field keeps its
\* pre-update value
C13_InvalidPatchFieldsIgnored ==
    \A i \in 1..Len(tasks), patch \in InvalidPatches, now \in Times :
        Commit(updateTask(store, tasks[i].id, patch, now)).tasks[i] = tasks[i]

\* C14: for every task whose status is not Done, updateTask(id, {status:
\* 'Done'}) gives it a defined completedAt and a following updateTask(id,
\* {status: 'Todo'}) or {status: 'In Progress'} leaves it without completedAt;
\* an update of a Done task that keeps it Done leaves its completedAt as it is
C14_CompletedAtFollowsStatus ==
    /\ \A i \in 1..Len(tasks), now \in Times :
           tasks[i].status # Done =>
               LET id == tasks[i].id
                   s1 == Commit(updateTask(store, id, StatusPatch(Done), now))
               IN /\ s1.tasks[i].status = Done
                  /\ s1.tasks[i].completedAt # Undefined
                  /\ \A back \in {Todo, InProgress} :
                         LET s2 == Commit(updateTask(s1, id, StatusPatch(back), now))
                         IN /\ s2.tasks[i].status = back
                            /\ s2.tasks[i].completedAt = Undefined
    /\ \A i \in 1..Len(tasks), now \in Times,
          patch \in Patches \cup InvalidPatches \cup {StatusPatch(Done)} :
           tasks[i].status = Done =>
               LET s1 == Commit(updateTask(store, tasks[i].id, patch, now))
               IN s1.tasks[i].status = Done =>
                      /\ tasks[i].completedAt # Undefined
                      /\ s1.tasks[i].completedAt = tasks[i].completedAt

\* C14 witness: updateTask has just run, and the task loaded as Done has been
\* moved away from Done and back: its completedAt is the time of the update
C14_Witness ==
    /\ lastOp.op = "updateTask"
    /\ \E i \in 1..Len(tasks) :
           /\ tasks[i].priority = High
           /\ tasks[i].status = Done
           /\ tasks[i].completedAt = Str(ToISOString(25))
           /\ tasks[i].createdAt # ToISOString(25)

\* the tasks of ts whose id is not id, in the order of ts
Others(ts, id) == LET Keep(t) == t.id # id IN SelectSeq(ts, Keep)

\* C18: addTask and undoDelete put the new or restored task at the end of the
\* collection, and addTask, updateTask, deleteTask and undoDelete leave the
\* other tasks in the order they were in
C18_InsertionOrderKept ==
    /\ \A task \in AddInputs, now \in Times :
           LET s1 == Commit(addTask(store, task, now, cryptoUUID))
           IN /\ Len(s1.tasks) = Len(tasks) + 1
              /\ SubSeq(s1.tasks, 1, Len(tasks)) = tasks
    /\ \A id \in IdSet(tasks) \cup {UnknownId}, patch \in Patches, now \in Times :
           LET s1 == Commit(updateTask(store, id, patch, now))
           IN /\ Len(s1.tasks) = Len(tasks)
              /\ \A i \in 1..Len(tasks) :
                     /\ s1.tasks[i].id = tasks[i].id
                     /\ s1.tasks[i].createdAt = tasks[i].createdAt
    /\ \A id \in IdSet(tasks) \cup {UnknownId} :
           Commit(deleteTask(store, id)).tasks = Others(tasks, id)
    /\ Commit(undoDelete(store)).tasks =
           (IF undoCaptured = NoTask THEN tasks ELSE Append(tasks, undoCaptured))

\* C18 witness: undoDelete has just restored a task: the loaded task stands
\* after the task that was added later
C18_Witness ==
    /\ lastOp = [op |-> "undoDelete", held |-> TRUE]
    /\ Len(tasks) = 2
    /\ tasks[1].createdAt = ToISOString(25)
    /\ tasks[2].createdAt # ToISOString(25)

\* C19: updateTask(id, patch) changes neither the id nor the createdAt of any
\* task, whatever keys the patch has, changes no task of another id, and
\* leaves the number of tasks and the undo slot as they are
C19_UpdateKeepsIdentityAndFrame ==
    \A id \in IdSet(tasks) \cup {UnknownId}, patch \in Patches \cup InvalidPatches,
       now \in Times :
        LET s1 == Commit(updateTask(store, id, patch, now))
        IN /\ Len(s1.tasks) = Len(tasks)
           /\ s1.lastDeleted = lastDeleted
           /\ \A i \in 1..Len(tasks) :
                  /\ s1.tasks[i].id = tasks[i].id
                  /\ s1.tasks[i].createdAt = tasks[i].createdAt
                  /\ tasks[i].id # id => s1.tasks[i] = tasks[i]

\* C19 witness: updateTask has just applied the patch that carries id,
\* createdAt and completedAt keys to the task loaded with the id 'a' and the
\* createdAt T5, while the slot held a task
C19_Witness ==
    /\ lastOp = [op |-> "updateTask", held |-> TRUE]
    /\ \E i \in 1..Len(tasks) :
           /\ tasks[i].id = <<"a">>
           /\ tasks[i].createdAt = <<"T", "5">>
           /\ tasks[i].title = UntitledTask


-----------------------------------------------------------------------------
(* The initial load: hook instances, invocations of the load effect, and the
   one fetch of /tasks.json *)

\* generateSalesTasks(50)
SeedCount == 50

\* generateSalesTasks(n): n placeholder tasks
generateSalesTasks(n, now) ==
    [i \in 1..n |->
        [id |-> <<"s">> \o NatDigits(i), title |-> UntitledTask, revenue |-> 0,
         timeTaken |-> 4, priority |-> Low, status |-> Todo, notes |-> <<>>,
         createdAt |-> ToISOString(now), completedAt |-> Undefined]]

\* the instances of useTasks mounted so far
Hooks == 1..Len(hookTasks)

\* res.status of a response that is not ok
BadStatuses == {404, 500}

\* `Failed to load tasks.json (${res.status})`
NotOkMessage(status) ==
    Str(<<"Failed to load tasks.json (">> \o NatDigits(status) \o <<")">>)

\* what a rejected fetch or res.json() throws: an error with a message, or a
\* value with none
Thrown == { Str(<<"Failed to fetch">>), Undefined }

\* what a rejected res.json() throws
JsonThrown == { Str(<<"Unexpected token">>), Null }

\* e?.message ?? 'Failed to load tasks'
MessageOf(e) == IF e = Undefined \/ e = Null THEN Str(<<"Failed to load tasks">>) ELSE e

\* the bodies res.json() can deliver
JsonBodies ==
    { [isArray |-> FALSE, items |-> <<>>],
      [isArray |-> TRUE, items |-> <<>>] }
      \cup { [isArray |-> TRUE, items |-> <<x>>] : x \in LoadItems }

\* catch (e) { if (isMounted) setError(e?.message ?? ...) } finally
\* { if (isMounted) { setLoading(false); fetchedRef.current = true } }
LoadFails(e, thrown) ==
    LET h == effects[e].hook IN
    /\ effects' = [effects EXCEPT ![e].pc = "done"]
    /\ IF effects[e].isMounted
       THEN /\ hookError' = [hookError EXCEPT ![h] = MessageOf(thrown)]
            /\ hookLoading' = [hookLoading EXCEPT ![h] = FALSE]
            /\ hookFetchedRef' = [hookFetchedRef EXCEPT ![h] = TRUE]
       ELSE UNCHANGED <<hookError, hookLoading, hookFetchedRef>>
    /\ UNCHANGED hookTasks

\* a component that uses useTasks() mounts: its state is the initial state
MountHook ==
    /\ Len(hookTasks) < MaxHooks
    /\ hookTasks' = Append(hookTasks, <<>>)
    /\ hookLoading' = Append(hookLoading, TRUE)
    /\ hookError' = Append(hookError, Null)
    /\ hookFetchedRef' = Append(hookFetchedRef, FALSE)
    /\ UNCHANGED <<hasLoadedTasksOnce, fetchState, fetchCount, normalizeCount, effects>>
    /\ UNCHANGED <<storeVars, normVars, renderVars, csvText>>

\* the load effect with the assignment hasLoadedTasksOnce = true left out
RunEffect_GuardNotSet ==
    \E h \in Hooks :
    /\ Len(effects) < MaxEffects
    /\ \A e \in 1..Len(effects) : effects[e].hook = h => ~effects[e].isMounted
    /\ fetchCount' = fetchCount + 1
    /\ fetchState' = "pending"
    /\ effects' = Append(effects, [hook |-> h, isMounted |-> TRUE, pc |-> "fetch"])
    /\ UNCHANGED <<hasLoadedTasksOnce, hookLoading, hookFetchedRef>>
    /\ UNCHANGED <<normalizeCount, hookTasks, hookError>>
    /\ UNCHANGED <<storeVars, normVars, renderVars, csvText>>

\* the load effect of a hook runs (mount, remount, or StrictMode's second
\* run): load() up to its first await
RunEffect ==
    \E h \in Hooks :
    /\ Len(effects) < MaxEffects
    /\ \A e \in 1..Len(effects) : effects[e].hook = h => ~effects[e].isMounted
    /\ IF hasLoadedTasksOnce
       THEN /\ effects' = Append(effects, [hook |-> h, isMounted |-> TRUE, pc |-> "done"])
            /\ hookLoading' = [hookLoading EXCEPT ![h] = FALSE]
            /\ hookFetchedRef' = [hookFetchedRef EXCEPT ![h] = TRUE]
            /\ UNCHANGED <<hasLoadedTasksOnce, fetchState, fetchCount>>
       ELSE /\ hasLoadedTasksOnce' = TRUE
            /\ fetchCount' = fetchCount + 1
            /\ fetchState' = "pending"
            /\ effects' = Append(effects, [hook |-> h, isMounted |-> TRUE, pc |-> "fetch"])
            /\ UNCHANGED <<hookLoading, hookFetchedRef>>
    /\ UNCHANGED <<normalizeCount, hookTasks, hookError>>
    /\ UNCHANGED <<storeVars, normVars, renderVars, csvText>>

\* the cleanup of an effect invocation: isMounted = false
Cleanup ==
    \E e \in 1..Len(effects) :
    /\ effects[e].isMounted
    /\ effects' = [effects EXCEPT ![e].isMounted = FALSE]
    /\ UNCHANGED <<hasLoadedTasksOnce, fetchState, fetchCount, normalizeCount,
                   hookTasks, hookLoading, hookError, hookFetchedRef>>
    /\ UNCHANGED <<storeVars, normVars, renderVars, csvText>>

\* fetch('/tasks.json') resolves with an ok response: load() goes on to
\* await res.json()
FetchOk ==
    \E e \in 1..Len(effects) :
    /\ effects[e].pc = "fetch"
    /\ fetchState' = "ok"
    /\ effects' = [effects EXCEPT ![e].pc = "json"]
    /\ UNCHANGED <<hasLoadedTasksOnce, fetchCount, normalizeCount,
                   hookTasks, hookLoading, hookError, hookFetchedRef>>
    /\ UNCHANGED <<storeVars, normVars, renderVars, csvText>>

\* fetch resolves with a response that is not ok: load() throws
FetchNotOk ==
    \E e \in 1..Len(effects) :
    /\ effects[e].pc = "fetch"
    /\ fetchState' = "failed"
    /\ \E status \in BadStatuses : LoadFails(e, NotOkMessage(status))
    /\ UNCHANGED <<hasLoadedTasksOnce, fetchCount, normalizeCount>>
    /\ UNCHANGED <<storeVars, normVars, renderVars, csvText>>

\* fetch rejects
FetchRejects ==
    \E e \in 1..Len(effects) :
    /\ effects[e].pc = "fetch"
    /\ fetchState' = "failed"
    /\ \E thrown \in Thrown : LoadFails(e, thrown)
    /\ UNCHANGED <<hasLoadedTasksOnce, fetchCount, normalizeCount>>
    /\ UNCHANGED <<storeVars, normVars, renderVars, csvText>>

\* res.json() rejects: the body does not parse
JsonRejects ==
    \E e \in 1..Len(effects) :
    /\ effects[e].pc = "json"
    /\ fetchState' = "failed"
    /\ \E thrown \in JsonThrown : LoadFails(e, thrown)
    /\ UNCHANGED <<hasLoadedTasksOnce, fetchCount, normalizeCount>>
    /\ UNCHANGED <<storeVars, normVars, renderVars, csvText>>

\* res.json() delivers the data: normalizeTasks, the fallback, setTasks and
\* the finally block
JsonDelivers ==
    \E e \in 1..Len(effects) :
    LET h == effects[e].hook IN
    /\ effects[e].pc = "json"
    /\ fetchState' = "delivered"
    /\ normalizeCount' = normalizeCount + 1
    /\ effects' = [effects EXCEPT ![e].pc = "done"]
    /\ \E data \in JsonBodies, now \in LoadTimes :
           LET normalized == normalizeTasks(data, now, cryptoUUID)
               finalData == IF Len(normalized) > 0 THEN normalized
                            ELSE generateSalesTasks(SeedCount, now)
           IN IF effects[e].isMounted
              THEN /\ hookTasks' = [hookTasks EXCEPT ![h] = finalData]
                   /\ hookLoading' = [hookLoading EXCEPT ![h] = FALSE]
                   /\ hookFetchedRef' = [hookFetchedRef EXCEPT ![h] = TRUE]
              ELSE UNCHANGED <<hookTasks, hookLoading, hookFetchedRef>>
    /\ UNCHANGED <<hasLoadedTasksOnce, fetchCount, hookError>>
    /\ UNCHANGED <<storeVars, normVars, renderVars, csvText>>

InitLoad ==
    /\ cryptoUUID \in BOOLEAN
    /\ StoreIdle
    /\ LoadIdle
    /\ NormIdle
    /\ RenderIdle
    /\ CsvIdle

NextLoad ==
    \/ MountHook
    \/ RunEffect
    \/ Cleanup
    \/ FetchOk
    \/ FetchNotOk
    \/ FetchRejects
    \/ JsonRejects
    \/ JsonDelivers

SpecLoad == InitLoad /\ [][NextLoad]_vars

-----------------------------------------------------------------------------
(* Properties of the initial load *)

\* C10: however often the load effect is invoked, /tasks.json is fetched and
\* normalized at most once; hasLoadedTasksOnce is false until the first
\* invocation, true from then on (set before the fetch is awaited, kept when
\* the load fails), and every later invocation returns without fetching
C10_LoadRunsAtMostOnce ==
    /\ fetchCount <= 1
    /\ normalizeCount <= 1
    /\ hasLoadedTasksOnce = (effects # <<>>)
    /\ fetchState # "none" => hasLoadedTasksOnce
    /\ \A e \in 2..Len(effects) : effects[e].pc = "done"

\* C10 witness: two hook instances, three invocations of the effect, the one
\* fetch has failed, and the guard is still set
C10_Witness ==
    /\ Len(hookTasks) = 2
    /\ Len(effects) >= 3
    /\ \E e \in 1..Len(effects) : effects[e].hook = 2
    /\ fetchState = "failed"
    /\ fetchCount = 1
    /\ hasLoadedTasksOnce

\* the hook whose effect invocation called fetch: the first invocation, the
\* only one that finds hasLoadedTasksOnce false
FetchingHook == effects[1].hook

\* the hook has a load effect that has run and has not been cleaned up: its
\* component is on screen
IsLive(h) == \E e \in 1..Len(effects) : effects[e].hook = h /\ effects[e].isMounted

\* the fetch has started and has neither delivered its data nor failed
LoadPending == fetchState \in {"pending", "ok"}

\* C11: while the initial load is pending, the store that started it, as long
\* as it is on screen, reports loading = true, an empty collection and
\* error = null, whatever cleanups and re-invocations of the load effect
\* happen meanwhile
C11_PendingLoadReportsLoading ==
    LoadPending =>
        (IsLive(FetchingHook) =>
            /\ hookLoading[FetchingHook] = TRUE
            /\ hookTasks[FetchingHook] = <<>>
            /\ hookError[FetchingHook] = Null)

\* C12: when the initial load has failed (fetch rejected, response not ok, or
\* body not parseable), the store that started it, as long as it is on
\* screen, has the failure in its error field, an empty collection and
\* loading = false, and load() has returned
C12_LoadFailureIsRecorded ==
    fetchState = "failed" =>
        /\ effects[1].pc = "done"
        /\ IsLive(FetchingHook) =>
               /\ hookError[FetchingHook] # Null
               /\ hookTasks[FetchingHook] = <<>>
               /\ hookLoading[FetchingHook] = FALSE

\* the load effect under the scheduling of the event loop: a callback that can
\* run is run, the process does not halt with one outstanding
FairSpecLoad == InitLoad /\ [][NextLoad]_vars /\ WF_vars(NextLoad)

\* the store shows the loaded data
ShowsLoadedData(h) ==
    /\ hookLoading[h] = FALSE
    /\ hookError[h] = Null
    /\ hookTasks[h] # <<>>

\* C17: once the fetch of /tasks.json has succeeded and its body has been
\* delivered, some store eventually has loading = false, error = null and a
\* non-empty collection, also when the load effect is cleaned up and
\* re-invoked while the fetch is in flight
C17_SuccessfulFetchLeadsToData ==
    (fetchState = "delivered") ~> (\E h \in Hooks : ShowsLoadedData(h))

-----------------------------------------------------------------------------
(* toCSV: the export of the collection *)

Comma == ","
Quote == "\""
LineFeed == "\n"
CarriageReturn == "\r"

\* const headers
Headers ==
    << <<"i", "d">>, <<"t", "i", "t", "l", "e">>, <<"r", "e", "v", "e", "n", "u", "e">>,
       <<"t", "i", "m", "e", "T", "a", "k", "e", "n">>,
       <<"p", "r", "i", "o", "r", "i", "t", "y">>, <<"s", "t", "a", "t", "u", "s">>,
       <<"n", "o", "t", "e", "s">> >>

RECURSIVE Join(_, _)
\* Array.prototype.join
Join(parts, sep) ==
    IF parts = <<>> THEN <<>>
    ELSE IF Len(parts) = 1 THEN parts[1]
    ELSE parts[1] \o <<sep>> \o Join(Tail(parts), sep)

\* String(x) of the finite number of q quarters
NumberToString(q) ==
    LET a == IF q < 0 THEN 0 - q ELSE q
        fraction == CASE a % 4 = 0 -> <<>>
                      [] a % 4 = 1 -> <<".", "2", "5">>
                      [] a % 4 = 2 -> <<".", "5">>
                      [] OTHER -> <<".", "7", "5">>
    IN (IF q < 0 THEN <<"-">> ELSE <<>>) \o NatDigits(a \div 4) \o fraction

RECURSIVE DoubleQuotes(_)
\* v.replace(/"/g, '""')
DoubleQuotes(v) ==
    IF v = <<>> THEN <<>>
    ELSE (IF Head(v) = Quote THEN <<Quote, Quote>> ELSE <<Head(v)>>) \o DoubleQuotes(Tail(v))

\* escapeCsv(v) for a string v
escapeCsv(v) ==
    LET needsQuote == \E i \in 1..Len(v) : v[i] \in {Quote, Comma, LineFeed, CarriageReturn}
        escaped == DoubleQuotes(v)
    IN IF needsQuote THEN <<Quote>> \o escaped \o <<Quote>> ELSE escaped

\* the array toCSV makes of the task t; the fields of a Task of the store are
\* never null and its numbers are finite
CsvRow(t) ==
    << t.id, escapeCsv(t.title), NumberToString(t.revenue), NumberToString(t.timeTaken),
       t.priority, t.status, escapeCsv(t.notes) >>

toCSV(ts) ==
    Join(<<Join(Headers, Comma)>> \o [i \in 1..Len(ts) |-> Join(CsvRow(ts[i]), Comma)],
         LineFeed)

\* records of /tasks.json whose strings carry commas, quotes and line breaks
CsvItems ==
    { Rec(Str(<<"a">>), Str(<<"x", Comma, "y">>), Num(10), Num(10), Str(High), Str(Done),
          Str(<<Quote, "q", Quote>>), U, U),
      Rec(Str(<<"b", Comma, "c">>), Str(<<"t">>), Num(-6), Num(4), U, U, U, U, U),
      Rec(Str(<<"d", Quote>>), Str(<<"l", LineFeed, "m">>), U, U, Str(Medium), Str(InProgress),
          Str(<<CarriageReturn>>), U, U),
      Rec(U, Str(<<Quote>>), Str(<<"7">>), Num(3), U, U, Str(<<Comma>>), U, U),
      Rec(Str(<<"e">>), Str(<<"p">>), Num(1), Num(8), Str(Low), Str(Todo), Str(<<"n">>), U, U) }

CsvInputs == { [isArray |-> TRUE, items |-> q] : q \in SeqsUpTo(CsvItems, MaxTasks) }

\* the store after the load of a batch, before the export
InitCsv ==
    /\ cryptoUUID \in BOOLEAN
    /\ \E input \in CsvInputs, now \in LoadTimes :
           tasks = normalizeTasks(input, now, cryptoUUID)
    /\ lastDeleted = NoTask
    /\ undoCaptured = NoTask
    /\ lastOp = [op |-> "load", held |-> FALSE]
    /\ LoadIdle
    /\ NormIdle
    /\ RenderIdle
    /\ CsvIdle

\* the collection is exported
ExportCsv ==
    /\ csvText = <<>>
    /\ csvText' = toCSV(tasks)
    /\ UNCHANGED <<storeVars, loadVars, normVars, renderVars>>

NextCsv == ExportCsv

SpecCsv == InitCsv /\ [][NextCsv]_vars

\* the reader of a CSV text before its first character: rows are the rows
\* read, fields the fields read of the current row, cur the characters read of
\* the current field; mode is "start" at the start of a field, "plain" in an
\* unquoted field, "quoted" in a quoted field, "closing" after a quote in a
\* quoted field, and "bad" once a closed quoted field was followed by anything
\* but a separator
ReadStart == [rows |-> <<>>, fields |-> <<>>, cur |-> <<>>, mode |-> "start"]

\* the reader after the character ch
ReadChar(st, ch) ==
    IF st.mode = "bad" THEN st
    ELSE IF st.mode = "quoted"
    THEN IF ch = Quote THEN [st EXCEPT !.mode = "closing"]
         ELSE [st EXCEPT !.cur = Append(@, ch)]
    ELSE IF st.mode = "closing" /\ ch = Quote
    THEN [st EXCEPT !.cur = Append(@, Quote), !.mode = "quoted"]
    ELSE IF st.mode = "start" /\ ch = Quote
    THEN [st EXCEPT !.mode = "quoted"]
    ELSE IF ch = Comma
    THEN [st EXCEPT !.fields = Append(@, st.cur), !.cur = <<>>, !.mode = "start"]
    ELSE IF ch \in {LineFeed, CarriageReturn}
    THEN [rows |-> Append(st.rows, Append(st.fields, st.cur)),
          fields |-> <<>>, cur |-> <<>>, mode |-> "start"]
    ELSE IF st.mode = "closing" THEN [st EXCEPT !.mode = "bad"]
    ELSE [st EXCEPT !.cur = Append(@, ch), !.mode = "plain"]

RECURSIVE ReadRange(_, _, _, _)
\* the reader after the characters lo..hi of text, read in order
ReadRange(st, text, lo, hi) ==
    IF st.mode = "bad" \/ lo > hi THEN st
    ELSE IF lo = hi THEN ReadChar(st, text[lo])
    ELSE LET mid == (lo + hi) \div 2
         IN ReadRange(ReadRange(st, text, lo, mid), text, mid + 1, hi)

\* the rows of a CSV text, each the sequence of its field values; no rows
\* for a text that is not well formed
ReadCsv(text) ==
    LET st == ReadRange(ReadStart, text, 1, Len(text))
    IN IF st.mode \in {"bad", "quoted"} THEN <<>>
       ELSE Append(st.rows, Append(st.fields, st.cur))

\* the seven values toCSV writes for a task
FieldValues(t) ==
    << t.id, t.title, NumberToString(t.revenue), NumberToString(t.timeTaken),
       t.priority, t.status, t.notes >>

\* C16: toCSV emits the header and one row per task, with every value that
\* contains a comma, a double quote or a line break quoted (the id included),
\* so that the text reads back as the header and, for each task, exactly its
\* seven values
C16_CsvRowsReadBack ==
    csvText # <<>> =>
        LET rows == ReadCsv(csvText)
        IN /\ Len(rows) = Len(tasks) + 1
           /\ rows[1] = Headers
           /\ \A i \in 1..Len(tasks) :
                  /\ Len(rows[i + 1]) = 7
                  /\ rows[i + 1] = FieldValues(tasks[i])

-----------------------------------------------------------------------------
(* The store between renders: the calls made from one render use the
   closures of that render, and their updates are applied in the order they
   were queued when the component renders again *)

\* deleteTask(id) is called. Its updater filters the queued collection; the
\* setLastDeleted(target) inside the updater runs at once when React computes
\* the update eagerly (possible only while the component has no update
\* queued), otherwise when the queue is processed at the next render, after
\* every setLastDeleted queued by the calls themselves
DeleteTaskCall ==
    \E id \in IdSet(tasks) \cup {UnknownId}, eager \in BOOLEAN :
        LET st == deleteTask(store, id) IN
        /\ pendingUpdates => ~eager
        /\ tasks' = st.tasks
        /\ IF eager
           THEN /\ lastDeleted' = st.lastDeleted
                /\ UNCHANGED deferredSlot
           ELSE /\ deferredSlot' = [set |-> TRUE, value |-> st.lastDeleted]
                /\ UNCHANGED lastDeleted
        /\ pendingUpdates' = TRUE
        /\ restored' = Others(restored, id)
        /\ lastOp' = [op |-> "deleteTask", held |-> lastDeleted # NoTask]
        /\ UNCHANGED <<undoCaptured, cryptoUUID>>
        /\ UNCHANGED <<loadVars, normVars, csvText>>

\* undoDelete() is called: the closure of the last render reads the
\* lastDeleted it captured
UndoDeleteCall ==
    LET st == undoDelete(store) IN
    /\ Len(tasks) < MaxTasks \/ undoCaptured = NoTask
    /\ tasks' = st.tasks
    /\ lastDeleted' = st.lastDeleted
    /\ pendingUpdates' = (pendingUpdates \/ undoCaptured # NoTask)
    /\ restored' = (IF undoCaptured = NoTask THEN restored
                    ELSE Append(restored, undoCaptured))
    /\ lastOp' = [op |-> "undoDelete", held |-> undoCaptured # NoTask]
    /\ UNCHANGED <<undoCaptured, cryptoUUID, deferredSlot>>
    /\ UNCHANGED <<loadVars, normVars, csvText>>

\* clearLastDeleted() is called
ClearLastDeletedCall ==
    LET st == clearLastDeleted(store) IN
    /\ lastDeleted' = st.lastDeleted
    /\ pendingUpdates' = (pendingUpdates \/ lastDeleted # NoTask)
    /\ lastOp' = [op |-> "clearLastDeleted", held |-> lastDeleted # NoTask]
    /\ UNCHANGED <<tasks, undoCaptured, cryptoUUID, deferredSlot, restored>>
    /\ UNCHANGED <<loadVars, normVars, csvText>>

\* the component renders again: the queued updates become the state, and
\* useCallback(..., [lastDeleted]) makes the undoDelete closure over it
Render ==
    /\ pendingUpdates
    /\ LET slot == IF deferredSlot.set THEN deferredSlot.value ELSE lastDeleted
           st == Commit(Store(tasks, slot, undoCaptured))
       IN /\ lastDeleted' = st.lastDeleted
          /\ undoCaptured' = st.captured
    /\ deferredSlot' = [set |-> FALSE, value |-> NoTask]
    /\ pendingUpdates' = FALSE
    /\ UNCHANGED <<tasks, cryptoUUID, lastOp, restored>>
    /\ UNCHANGED <<loadVars, normVars, csvText>>

NextRender ==
    \/ DeleteTaskCall
    \/ UndoDeleteCall
    \/ ClearLastDeletedCall
    \/ Render

SpecRender == Init /\ [][NextRender]_vars

\* C20: a deleted task is restored at most once per deletion, whatever the
\* interleaving of undoDelete calls, deleteTask calls and renders: no task
\* was appended twice by undoDelete since it was last deleted, and a task that
\* undoDelete appended is in the collection only once
C20_RestoredAtMostOncePerDeletion ==
    /\ \A i \in 1..Len(restored), j \in 1..Len(restored) :
           i # j => restored[i] # restored[j]
    /\ \A i \in 1..Len(tasks), j \in 1..Len(tasks) :
           (i # j /\ tasks[i] \in Elems(restored)) => tasks[i] # tasks[j]

=============================================================================
